---- MODULE Spec2Model ----
(***************************************************************************)
(* Single-track playback session of song-viewer: the useAudioPlayer hook,  *)
(* the navigation policy of utils/audioUtils.ts and the transport controls *)
(* of pages/player/PlayControl.tsx.                                        *)
(*                                                                         *)
(* Two revisions of useAudioPlayer are in the repository and both are      *)
(* modelled; the variable rev says which one a behaviour runs:             *)
(*   "search"  src/src/hooks/useAudioPlayer.ts (track id in ?track=)       *)
(*   "path"    src/src/contexts/BrowserContext.tsx:135-479 (track id in    *)
(*             /track/:trackId, isNavigating guard)                        *)
(*                                                                         *)
(* React is modelled by what the hook relies on: audioState is the         *)
(* committed state closures read; setAudioState(fn) appends fn to queue;   *)
(* a render applies the whole queue in order, updaters' side effects       *)
(* included; passive effects run after a commit, at once for a discrete    *)
(* event (click, key) and in a later step otherwise.  Production build:    *)
(* updaters and effects are invoked once.                                  *)
(***************************************************************************)
EXTENDS Integers, Sequences, FiniteSets, TLC

\* ---------------------------------------------------------------- bounds
NumTracks == 2
MaxSounds == 3
MaxCatalog == 3

\* ------------------------------------------------------------- constants
NoTrack == 0
NoSound == 0
NoId == 0
NullIndex == -1
RestartThreshold == 3
NoDrag == -1

Revs == {"search", "path"}
Loops == {"none", "all", "single"}
Tracks == 1..NumTracks
Catalog == [i \in 1..NumTracks |-> i]

\* AudioFileRecord: a track is named by its catalog position 1..N; the code's
\* fields are id (a string, here 10 + t), index (0-based) and url.
TrackId(t) == 10 + t
TrackIndex(t) == t - 1
\* an id no track of the catalog has
UnknownId == TrackId(NumTracks + 1)
\* Playback time advances in steps of TimeStep seconds: the first step takes
\* a sound to the restart threshold of playPrev, the second past it.  The
\* first track lasts one step, the others two.
TimeStep == RestartThreshold
TrackDuration(t) == IF t = 1 THEN TimeStep ELSE 2 * TimeStep

\* The location as the hook reads it: the values of its track parameter, in
\* order.  "search": ?track=a&track=b has two; "path": /track/:trackId has
\* at most one.
NoLocation == <<>>
Locations ==
  {NoLocation, <<UnknownId>>, <<UnknownId, TrackId(1)>>}
    \cup {<<TrackId(t)>> : t \in Tracks}

\* searchParams.get("track"), useParams().trackId: the first value or null
getTrackParam(loc) == IF loc = <<>> THEN NoId ELSE Head(loc)

\* prev.set("track", id): one value, whatever was there;
\* navigate(`/track/${id}`)
\* a faulty variant: URLSearchParams.append instead of set
setTrackParamAppend(loc, id) == Append(loc, id)

setTrackParam(loc, id) == <<id>>

\* catalog.songs[i], i 0-based; undefined (NoTrack) outside the array
SongAt(songs, i) == IF i >= 0 /\ i < Len(songs) THEN songs[i + 1] ELSE NoTrack

\* catalog.songs.find((s) => s.id === trackId)
FindTrack(songs, id) ==
  IF \E k \in 1..Len(songs) : TrackId(songs[k]) = id
  THEN songs[CHOOSE k \in 1..Len(songs) :
               /\ TrackId(songs[k]) = id
               /\ \A j \in 1..(k - 1) : TrackId(songs[j]) # id]
  ELSE NoTrack

\* ------------------------------------------------- utils/audioUtils.ts
getNextTrackIndex(currentIndex, catalogLength) ==
  LET nextIndex == currentIndex + 1
  IN IF nextIndex < catalogLength THEN nextIndex ELSE NullIndex

getPreviousTrackIndex(currentIndex) ==
  LET prevIndex == currentIndex - 1
  IN IF prevIndex >= 0 THEN prevIndex ELSE NullIndex

\* Math.random() is drawn by the caller: rnd is the track of the first draw
\* of the do/while loop, alt the one of the second.  The loop goes on while
\* the draw has the current track's id; NoTrack stands for a loop that the
\* two draws do not end.  Draws pairs every first draw with one other track,
\* which lets the loop return every track but the current one.
getRandomTrackFirstDraw(currentTrack, songs, rnd, alt) ==
  IF Len(songs) = 0 THEN NoTrack
  ELSE IF Len(songs) = 1 THEN songs[1]
  ELSE rnd

getRandomTrack(currentTrack, songs, rnd, alt) ==
  IF Len(songs) = 0 THEN NoTrack
  ELSE IF Len(songs) = 1 THEN songs[1]
  ELSE IF ~(currentTrack # NoTrack /\ TrackId(rnd) = TrackId(currentTrack))
  THEN rnd
  ELSE IF ~(currentTrack # NoTrack /\ TrackId(alt) = TrackId(currentTrack))
  THEN alt
  ELSE NoTrack

Draws == {<<r, (r % NumTracks) + 1>> : r \in Tracks}

\* faulty variants: shuffle looked at before loop = single; loop = all
\* not looked at
getNextTrackShuffleFirst(currentTrack, songs, shuffle, loop, rnd, alt) ==
  IF currentTrack = NoTrack THEN NoTrack
  ELSE IF shuffle THEN getRandomTrack(currentTrack, songs, rnd, alt)
  ELSE IF loop = "single" THEN currentTrack
  ELSE LET nextIndex == getNextTrackIndex(TrackIndex(currentTrack), Len(songs))
       IN IF nextIndex = NullIndex /\ loop = "all" THEN SongAt(songs, 0)
          ELSE IF nextIndex # NullIndex THEN SongAt(songs, nextIndex)
          ELSE NoTrack

getNextTrackNoWrap(currentTrack, songs, shuffle, loop, rnd, alt) ==
  IF currentTrack = NoTrack THEN NoTrack
  ELSE IF loop = "single" THEN currentTrack
  ELSE IF shuffle THEN getRandomTrack(currentTrack, songs, rnd, alt)
  ELSE LET nextIndex == getNextTrackIndex(TrackIndex(currentTrack), Len(songs))
       IN IF nextIndex # NullIndex THEN SongAt(songs, nextIndex)
          ELSE NoTrack

getNextTrack(currentTrack, songs, shuffle, loop, rnd, alt) ==
  IF currentTrack = NoTrack THEN NoTrack
  ELSE IF loop = "single" THEN currentTrack
  ELSE IF shuffle THEN getRandomTrack(currentTrack, songs, rnd, alt)
  ELSE LET nextIndex == getNextTrackIndex(TrackIndex(currentTrack), Len(songs))
       IN IF nextIndex = NullIndex /\ loop = "all" THEN SongAt(songs, 0)
          ELSE IF nextIndex # NullIndex THEN SongAt(songs, nextIndex)
          ELSE NoTrack

getPreviousTrack(currentTrack, songs, shuffle, loop, rnd, alt) ==
  IF currentTrack = NoTrack THEN NoTrack
  ELSE IF loop = "single" THEN currentTrack
  ELSE IF shuffle THEN getRandomTrack(currentTrack, songs, rnd, alt)
  ELSE LET prevIndex == getPreviousTrackIndex(TrackIndex(currentTrack))
       IN IF prevIndex # NullIndex THEN SongAt(songs, prevIndex) ELSE NoTrack

\* ----------------------------------------------------------------- state
VARIABLES
  rev,               \* revision of useAudioPlayer the behaviour runs
  mounted,           \* the player component is mounted
  audioState,        \* useState<AudioState>: the committed state
  queue,             \* setAudioState updaters not yet rendered
  sounds,            \* the Howls that exist, by creation order
  url,               \* the location the router shows (searchParams / params)
  nav,               \* location of the hook's navigation in flight, or none
  isNavigating,      \* useRef guard of the "path" revision
  positionInterval,  \* the number of running polling intervals; the
                     \* useRef holds one exactly when there is any
  deps,              \* dependency values the effects last ran with
  drag,              \* value of the progress slider while it is dragged
  policy,            \* one call of a track-advance function of audioUtils:
                     \* its arguments and, once made, its result
  multi,             \* the multi-stem session of useMultiTrackPlayer
  hist               \* observations about the run (no program state)

vars == <<rev, mounted, audioState, queue, sounds, url, nav, isNavigating,
          positionInterval, deps, drag, policy, multi, hist>>

\* The whole state as one value, so that a handler can call another.  threw
\* says that the step raised an exception; hist.redundant is about one step.
World ==
  [rev |-> rev, mounted |-> mounted, audioState |-> audioState,
   queue |-> queue, sounds |-> sounds, url |-> url, nav |-> nav,
   isNavigating |-> isNavigating,
   positionInterval |-> positionInterval, deps |-> deps, drag |-> drag,
   hist |-> [hist EXCEPT !.redundant = FALSE], threw |-> FALSE]

\* Garbage collection: a disposed Howl that nothing refers to any more is
\* dropped from sounds, and the references are renumbered.
Referenced(w) ==
  {w.audioState.sound, w.deps.sound}
    \cup {w.queue[n].sound : n \in 1..Len(w.queue)}

Kept(w) ==
  {i \in 1..Len(w.sounds) : w.sounds[i].unloads = 0 \/ i \in Referenced(w)}

Collect(w) ==
  LET kept == Kept(w)
      renumber == [i \in 0..Len(w.sounds) |->
                     IF i \in kept THEN Cardinality({j \in kept : j <= i})
                     ELSE 0]
  IN IF kept = 1..Len(w.sounds) THEN w
     ELSE [w EXCEPT
             !.sounds = [k \in 1..Cardinality(kept) |->
                           w.sounds[CHOOSE i \in kept : renumber[i] = k]],
             !.audioState.sound = renumber[@],
             !.deps.sound = renumber[@],
             !.queue = IF w.queue = <<>> THEN <<>>
                       ELSE [n \in 1..Len(w.queue) |->
                               [w.queue[n] EXCEPT !.sound = renumber[@]]]]

Within(w) == Len(w.sounds) <= MaxSounds

Becomes(v) ==
  \E w \in {Collect(v)} :
  /\ Within(w)
  /\ rev' = w.rev
  /\ mounted' = w.mounted
  /\ audioState' = w.audioState
  /\ queue' = w.queue
  /\ sounds' = w.sounds
  /\ url' = w.url
  /\ nav' = w.nav
  /\ isNavigating' = w.isNavigating
  /\ positionInterval' = w.positionInterval
  /\ deps' = w.deps
  /\ drag' = w.drag
  /\ policy' = policy
  /\ multi' = multi
  /\ hist' = w.hist

\* ------------------------------------------------------------ Howl handle
\* The Howl a createSound call returns.  unloads counts the unload() calls;
\* a handle with unloads > 0 is disposed and inert.  wantPlay is the play
\* request Howler holds until the load completes.  hsel is the selectedTrack
\* that the handleTrackSelect instance wired into onEnd closes over, and
\* liveAtCreate the number of undisposed handles when this one was created.
Live(sd) == sd.unloads = 0

LiveSounds(snds) == {i \in 1..Len(snds) : Live(snds[i])}

HowlNew(track, hsel, initial, live) ==
  [track |-> track, loaded |-> FALSE, playing |-> FALSE, wantPlay |-> FALSE,
   pos |-> 0, unloads |-> 0, stops |-> 0, hsel |-> hsel,
   initial |-> initial, liveAtCreate |-> live, failed |-> FALSE]

HowlDuration(sd) == IF sd.loaded THEN TrackDuration(sd.track) ELSE 0

HowlPlaying(sd) == Live(sd) /\ sd.playing

HowlPlay(sd) ==
  IF ~Live(sd) THEN sd
  ELSE IF sd.loaded THEN [sd EXCEPT !.playing = TRUE, !.wantPlay = TRUE]
  ELSE [sd EXCEPT !.wantPlay = TRUE]

HowlPause(sd) ==
  IF ~Live(sd) THEN sd
  ELSE [sd EXCEPT !.playing = FALSE, !.wantPlay = FALSE]

HowlSeekTo(sd, offset) == IF ~Live(sd) THEN sd ELSE [sd EXCEPT !.pos = offset]

\* seek(): a sound that is not loaded yet is at 0; a seek(offset) it was
\* given takes effect when it is loaded
HowlSeek(sd) == IF Live(sd) /\ sd.loaded THEN sd.pos ELSE 0

HowlStop(sd) ==
  IF ~Live(sd) THEN sd
  ELSE [sd EXCEPT !.playing = FALSE, !.wantPlay = FALSE, !.pos = 0,
                  !.stops = IF @ < 2 THEN @ + 1 ELSE @]

HowlUnload(sd) ==
  [sd EXCEPT !.loaded = FALSE, !.playing = FALSE, !.wantPlay = FALSE,
             !.pos = 0, !.hsel = NoTrack, !.track = NoTrack,
             !.failed = FALSE,
             !.unloads = IF @ < 2 THEN @ + 1 ELSE @]

\* createSound(url, callbacks): a new handle, appended to sounds
createSound(snds, track, hsel, initial) ==
  Append(snds, HowlNew(track, hsel, initial, Cardinality(LiveSounds(snds))))

\* cleanupSound(sound): stop() then unload(), nothing for null
cleanupSound(snds, s) ==
  IF s # NoSound
  THEN [snds EXCEPT ![s] = HowlUnload(HowlStop(@))]
  ELSE snds

\* ------------------------------------------------------ queued updaters
\* One setAudioState(fn) call: k names fn, the other fields are what fn
\* closes over (0 when unused).
Upd(k, track, sound, d, hsel) ==
  [k |-> k, track |-> track, sound |-> sound, d |-> d, hsel |-> hsel]

Plain(k) == Upd(k, NoTrack, NoSound, 0, NoTrack)

\* a faulty variant: an update of an unmounted component is kept
setAudioStateUnmounted(w, u) == [w EXCEPT !.queue = Append(@, u)]

setAudioState(w, u) ==
  IF w.mounted THEN [w EXCEPT !.queue = Append(@, u)] ELSE w

Owned(w) == w.audioState.sound

\* ------------------------------------------------- handleTrackSelect
\* The part of handleTrackSelect that runs in the caller: the URL update and
\* the setAudioState calls.  hsel is audioState.selectedTrack as the called
\* instance closes over it; only the "path" revision reads it, and its
\* console.log("old:", audioState.selectedTrack.id) throws when it is null.
handleTrackSelect(w, track, hsel) ==
  IF w.rev = "search"
  THEN setAudioState(
         [w EXCEPT !.nav = setTrackParam(w.url, TrackId(track)),
                   !.hist.last = track],
         Upd("select", track, NoSound, 0, NoTrack))
  ELSE LET w1 == [w EXCEPT !.isNavigating = TRUE,
                           !.nav = setTrackParam(w.url, TrackId(track)),
                           !.hist.last = track]
           w2 == IF hsel # NoTrack /\ TrackId(track) = TrackId(hsel)
                 THEN setAudioState(w1, Plain("pos0"))
                 ELSE w1
       IN IF hsel = NoTrack
          THEN [w2 EXCEPT !.threw = TRUE]
          ELSE setAudioState(w2,
                 Upd("select", track, NoSound, 0, hsel))

\* Faulty variants of the updater, used to show what the properties below
\* depend on: one that does not dispose the previous sound, one that
\* disposes it only after it created the new one, one that keeps the old
\* duration.
SelectUpdaterNoCleanup(w, u) ==
  LET prev == w.audioState
      snds == createSound(w.sounds, u.track, u.hsel, FALSE)
      newSound == Len(snds)
  IN [w EXCEPT
        !.sounds = snds,
        !.audioState = [prev EXCEPT !.selectedTrack = u.track,
                                    !.sound = newSound,
                                    !.isPlaying = TRUE,
                                    !.position = 0,
                                    !.duration = HowlDuration(snds[newSound])]]

SelectUpdaterCreateFirst(w, u) ==
  LET prev == w.audioState
      created == createSound(w.sounds, u.track, u.hsel, FALSE)
      newSound == Len(created)
      snds == cleanupSound(created, prev.sound)
  IN [w EXCEPT
        !.sounds = snds,
        !.audioState = [prev EXCEPT !.selectedTrack = u.track,
                                    !.sound = newSound,
                                    !.isPlaying = TRUE,
                                    !.position = 0,
                                    !.duration = HowlDuration(snds[newSound])]]

SelectUpdaterKeepsDuration(w, u) ==
  LET prev == w.audioState
      cleaned == cleanupSound(w.sounds, prev.sound)
      snds == createSound(cleaned, u.track, u.hsel, FALSE)
      newSound == Len(snds)
  IN [w EXCEPT
        !.sounds = snds,
        !.audioState = [prev EXCEPT !.selectedTrack = u.track,
                                    !.sound = newSound,
                                    !.isPlaying = TRUE,
                                    !.position = 0]]

\* The updater handleTrackSelect queues: dispose the previous sound, create
\* the new one, return the new state.
\* a faulty variant: the selection of the selected track changes nothing
SelectUpdaterSkipsSame(w, u) ==
  IF w.audioState.selectedTrack = u.track THEN w
  ELSE LET prev == w.audioState
           cleaned == cleanupSound(w.sounds, prev.sound)
           snds == createSound(cleaned, u.track, u.hsel, FALSE)
           newSound == Len(snds)
       IN [w EXCEPT
             !.sounds = snds,
             !.audioState = [prev EXCEPT
                               !.selectedTrack = u.track,
                               !.sound = newSound,
                               !.isPlaying = TRUE,
                               !.position = 0,
                               !.duration = HowlDuration(snds[newSound])]]

SelectUpdater(w, u) ==
  LET prev == w.audioState
      cleaned == cleanupSound(w.sounds, prev.sound)
      snds == createSound(cleaned, u.track, u.hsel, FALSE)
      newSound == Len(snds)
  IN [w EXCEPT
        !.sounds = snds,
        !.audioState = [prev EXCEPT !.selectedTrack = u.track,
                                    !.sound = newSound,
                                    !.isPlaying = TRUE,
                                    !.position = 0,
                                    !.duration = HowlDuration(snds[newSound])]]

\* onEnd of a sound, as queued by the callback.  "search": the next track is
\* computed from the track the sound was created for and loop = single goes
\* through handleTrackSelect like any other track.  "path": loop = single
\* replays state.sound, and the next track is computed from
\* state.selectedTrack.
\* a faulty variant: the end of the last track gives up the ended sound
EndUpdaterDisposes(w, u, rnd, alt) ==
  LET state == w.audioState
      nextTrack == getNextTrack(u.track, Catalog, state.shuffle, state.loop,
                                rnd, alt)
  IN IF nextTrack # NoTrack
     THEN handleTrackSelect(w, nextTrack, u.hsel)
     ELSE [w EXCEPT !.sounds = cleanupSound(@, state.sound),
                    !.audioState.isPlaying = FALSE]

\* a faulty variant: the end of the last track clears the selection
EndUpdaterDeselects(w, u, rnd, alt) ==
  LET state == w.audioState
      nextTrack == getNextTrack(u.track, Catalog, state.shuffle, state.loop,
                                rnd, alt)
  IN IF nextTrack # NoTrack
     THEN handleTrackSelect(w, nextTrack, u.hsel)
     ELSE [w EXCEPT !.audioState.isPlaying = FALSE,
                    !.audioState.selectedTrack = NoTrack]

EndUpdater(w, u, rnd, alt) ==
  LET state == w.audioState
  IN IF w.rev = "path" /\ state.loop = "single" /\ state.sound # NoSound
     THEN [w EXCEPT
             !.sounds[state.sound] = HowlPlay(HowlSeekTo(@, 0)),
             !.audioState.position = 0]
     ELSE LET cur == IF w.rev = "search" THEN u.track ELSE state.selectedTrack
              nextTrack == getNextTrack(cur, Catalog, state.shuffle,
                                        state.loop, rnd, alt)
          IN IF nextTrack # NoTrack
             THEN handleTrackSelect(w, nextTrack, u.hsel)
             ELSE [w EXCEPT !.audioState.isPlaying = FALSE]

\* the interval callback of startPositionTracking
TickUpdater(w) ==
  LET prev == w.audioState
  IN IF prev.sound = NoSound THEN w
     ELSE [w EXCEPT !.audioState.position = HowlSeek(w.sounds[prev.sound])]

\* a faulty variant: the initial track starts playing
InitUpdaterAutoplays(w, u) ==
  [w EXCEPT !.audioState =
     [@ EXCEPT !.selectedTrack = u.track, !.sound = u.sound,
               !.position = 0, !.duration = u.d,
               !.loop = "none", !.shuffle = FALSE, !.isPlaying = TRUE]]

\* setAudioState((prev) => ({...prev, ...initialState})) of the
\* initialization effect; initialState is createInitialAudioState's result
InitUpdater(w, u) ==
  [w EXCEPT !.audioState =
     [@ EXCEPT !.selectedTrack = u.track, !.sound = u.sound,
               !.position = 0, !.duration = u.d,
               !.loop = "none", !.shuffle = FALSE]]

\* a faulty variant: a switch between none and all only
toggleLoopValueSkipsSingle(loop) ==
  IF loop = "none" THEN "all" ELSE "none"

toggleLoopValue(loop) ==
  IF loop = "none" THEN "all"
  ELSE IF loop = "all" THEN "single"
  ELSE "none"

ApplyUpdater(w, u, rnd, alt) ==
  LET w0 == w
  IN CASE u.k = "select" -> SelectUpdater(w0, u)
       [] u.k = "end" -> EndUpdater(w0, u, rnd, alt)
       [] u.k = "tick" -> TickUpdater(w0)
       [] u.k = "init" -> InitUpdater(w0, u)
       [] u.k = "load" -> [w0 EXCEPT !.audioState.duration = u.d]
       [] u.k = "pos0" -> [w0 EXCEPT !.audioState.position = 0]
       [] u.k = "drag" -> [w0 EXCEPT !.audioState.position = u.d]
       [] u.k = "togglePlay" ->
            [w0 EXCEPT !.audioState.isPlaying = ~@]
       [] u.k = "toggleShuffle" ->
            [w0 EXCEPT !.audioState.shuffle = ~@]
       [] u.k = "toggleLoop" ->
            [w0 EXCEPT !.audioState.loop = toggleLoopValue(@)]

\* ------------------------------------------------------ render and effects
\* Teardown.  The cleanup effect has no dependencies, so the audioState it
\* closes over is the one of the first render: useState's initial value,
\* whose sound is null.  Pending updates of an unmounted component are
\* dropped, and so is what the router and the effects kept for it.
MountClosureSound == NoSound

DepsOf(w) ==
  [ran |-> TRUE, url |-> w.url, sel |-> w.audioState.selectedTrack,
   sound |-> w.audioState.sound, isPlaying |-> w.audioState.isPlaying]

stopPositionTracking(w) ==
  IF w.positionInterval # 0
  THEN [w EXCEPT !.positionInterval = @ - 1]
  ELSE w

\* a faulty variant: no early return when an interval is already set
startPositionTrackingAgain(w) == [w EXCEPT !.positionInterval = @ + 1]

startPositionTracking(w) ==
  IF w.positionInterval # 0 THEN w
  ELSE [w EXCEPT !.positionInterval = @ + 1]

UnmountCleanup(w) ==
  LET w1 == stopPositionTracking(
              [w EXCEPT !.sounds = cleanupSound(@, MountClosureSound),
                        !.mounted = FALSE,
                        !.queue = <<>>])
  IN [w1 EXCEPT !.nav = NoLocation, !.isNavigating = FALSE,
                !.drag = NoDrag,
                !.hist.ext = FALSE, !.hist.last = NoTrack,
                !.deps = DepsOf(w1)]

\* A render applies the queued updaters in order; an updater may queue
\* more (onEnd calls handleTrackSelect), which the same render applies.
RECURSIVE Drain(_, _, _)
Drain(w, rnd, alt) ==
  IF w.threw \/ w.queue = <<>> THEN w
  ELSE Drain(ApplyUpdater([w EXCEPT !.queue = Tail(@)], Head(w.queue),
                          rnd, alt),
             rnd, alt)

FxPending(w) == w.mounted /\ w.deps # DepsOf(w)

\* a faulty variant: the effect starts the sound but never pauses it
ReconcileEffectNoPause(w) ==
  LET sound == w.audioState.sound
  IN IF sound = NoSound THEN w
     ELSE IF w.audioState.isPlaying /\ ~HowlPlaying(w.sounds[sound])
     THEN [w EXCEPT !.sounds[sound] = HowlPlay(@)]
     ELSE w

\* PlayControl: sync the Howl with isPlaying
ReconcileEffect(w) ==
  LET sound == w.audioState.sound
      isPlaying == w.audioState.isPlaying
  IN IF sound = NoSound THEN w
     ELSE LET isCurrentlyPlaying == HowlPlaying(w.sounds[sound])
          IN IF isPlaying /\ ~isCurrentlyPlaying
             THEN [w EXCEPT !.sounds[sound] = HowlPlay(@)]
             ELSE IF ~isPlaying /\ isCurrentlyPlaying
             THEN [w EXCEPT !.sounds[sound] = HowlPause(@)]
             ELSE w

\* useAudioPlayer: initialize from the URL or default to the first track
\* a faulty variant: the initialisation ignores the location
InitEffectFirstTrack(w) ==
  IF Len(Catalog) = 0 THEN w
  ELSE IF w.audioState.selectedTrack # NoTrack THEN w
  ELSE LET snds == createSound(w.sounds, SongAt(Catalog, 0),
                               w.audioState.selectedTrack, TRUE)
           sound == Len(snds)
       IN setAudioState(
            [w EXCEPT !.sounds = snds,
                      !.hist.inits = IF @ < 2 THEN @ + 1 ELSE @],
            Upd("init", SongAt(Catalog, 0), sound, HowlDuration(snds[sound]),
                NoTrack))

InitEffect(w) ==
  IF Len(Catalog) = 0 THEN w
  ELSE IF w.audioState.selectedTrack # NoTrack THEN w
  ELSE LET trackId == getTrackParam(w.url)
           found == FindTrack(Catalog, trackId)
           trackToLoad == IF trackId # NoId /\ found # NoTrack
                          THEN found ELSE SongAt(Catalog, 0)
           snds == createSound(w.sounds, trackToLoad,
                               w.audioState.selectedTrack, TRUE)
           sound == Len(snds)
       IN setAudioState(
            [w EXCEPT !.sounds = snds,
                      !.hist.inits = IF @ < 2 THEN @ + 1 ELSE @],
            Upd("init", trackToLoad, sound, HowlDuration(snds[sound]),
                NoTrack))

\* useAudioPlayer: follow URL changes.  hist.ext says that the URL shown was
\* put there by an external navigation this effect has not handled yet;
\* hist.redundant says that the step selected a track without one;
\* hist.last is the track handleTrackSelect was last called with since the
\* last external navigation; hist.inits counts the initial lookups.
UrlEffect(w) ==
  IF w.rev = "path" /\ w.isNavigating THEN w
  ELSE IF Len(Catalog) = 0 THEN w
  ELSE IF w.audioState.selectedTrack = NoTrack THEN w
  ELSE LET w1 == [w EXCEPT !.hist.ext = FALSE]
           trackId == getTrackParam(w.url)
           track == FindTrack(Catalog, trackId)
       IN IF /\ trackId # NoId
             /\ trackId # TrackId(w.audioState.selectedTrack)
             /\ track # NoTrack
          THEN handleTrackSelect(
                 [w1 EXCEPT !.hist.redundant = @ \/ ~w.hist.ext],
                 track, w.audioState.selectedTrack)
          ELSE w1

\* useAudioPlayer: start/stop position tracking
TrackingEffect(w) ==
  IF w.audioState.sound # NoSound /\ w.audioState.isPlaying
  THEN startPositionTracking(w)
  ELSE stopPositionTracking(w)

\* The passive effects of one commit, children first, each only when one of
\* its dependencies changed since it last ran.
RunEffects(w) ==
  LET d == w.deps
      now == DepsOf(w)
      first == ~d.ran
      cUrl == first \/ d.url # now.url
      cSel == first \/ d.sel # now.sel
      cPlay == first \/ d.sound # now.sound \/ d.isPlaying # now.isPlaying
      w1 == IF cPlay THEN ReconcileEffect(w) ELSE w
      w2 == IF cUrl \/ cSel THEN InitEffect(w1) ELSE w1
      w3 == IF cUrl \/ (w.rev = "path" /\ cSel) THEN UrlEffect(w2) ELSE w2
      w4 == IF cPlay THEN TrackingEffect(w3) ELSE w3
  IN [w4 EXCEPT !.deps = now]

FlushFx(w) == IF FxPending(w) THEN RunEffects(w) ELSE w

\* The render proper: the queue is applied and the result committed.  An
\* updater that throws fails the render: nothing is committed and the error
\* boundary unmounts the player.
Commit(w1, rnd, alt) ==
  LET w2 == Drain(w1, rnd, alt)
  IN IF w2.threw
     THEN UnmountCleanup([w2 EXCEPT !.audioState = w1.audioState,
                                    !.threw = FALSE])
     ELSE w2

\* One render: the effects of the previous commit first, then the queue.
RenderW(w, rnd, alt) == Commit(FlushFx(w), rnd, alt)

\* A discrete event (click, key): React renders and runs the effects before
\* the event returns, updates made by those effects included.
RECURSIVE SettleSync(_, _, _)
SettleSync(w, rnd, alt) ==
  LET w1 == RenderW(w, rnd, alt)
      w2 == FlushFx(w1)
  IN IF w2.mounted /\ w2.queue # <<>>
     THEN SettleSync(w2, rnd, alt) ELSE w2

\* ------------------------------------------------------------------ Init
\* The hook as constructed: useState's initial value, no sound, the URL the
\* page was opened with, mount effects not yet run.
InitialAudioState ==
  [isPlaying |-> FALSE, selectedTrack |-> NoTrack, sound |-> NoSound,
   position |-> 0, duration |-> 0, loop |-> "none", shuffle |-> FALSE]

\* useState's initial value of useMultiTrackPlayer: an empty stem map
InitialMultiState ==
  [tracks |-> <<>>, isPlaying |-> FALSE, position |-> 0, duration |-> 0,
   loading |-> TRUE]

\* The session of a multi-stem view that is not shown.  lists counts the
\* stem lists the view has been given; fx says that the initialization
\* effect has to run for the last one, which tracks holds until then (the
\* effect is the only reader of the list); cleanup is
\* the number of the list whose effect cleanup is registered (0: none),
\* howls are the Howls created for the stems, by creation order.
NoSession ==
  [mounted |-> FALSE, tracks |-> <<>>, lists |-> 0, fx |-> FALSE,
   cleanup |-> 0, state |-> InitialMultiState, queue |-> <<>>,
   howls |-> <<>>, soundsInitialized |-> FALSE, loadTimeout |-> "none",
   positionInterval |-> 0]

\* no call of a track-advance function on its own
NoCall ==
  [n |-> 0, cur |-> NoTrack, shuffle |-> FALSE, loop |-> "none",
   rnd |-> 1, alt |-> 1, op |-> "idle", out |-> NoTrack]

InitRev(r) ==
  /\ policy = NoCall
  /\ multi = NoSession
  /\ drag = NoDrag
  /\ rev = r
  /\ mounted = TRUE
  /\ audioState = InitialAudioState
  /\ queue = <<>>
  /\ sounds = <<>>
  /\ url \in Locations
  /\ r = "path" => Len(url) <= 1
  /\ nav = NoLocation
  /\ isNavigating = FALSE
  /\ positionInterval = 0
  /\ deps = [ran |-> FALSE, url |-> NoLocation, sel |-> NoTrack,
             sound |-> NoSound, isPlaying |-> FALSE]
  /\ hist = [ext |-> FALSE, redundant |-> FALSE, last |-> NoTrack,
             inits |-> 0]

Init == \E r \in Revs : InitRev(r)

\* The Math.random() draws a step can make use of: they matter only to an
\* updater or handler that runs with shuffle on.
QueueHas(w, k) == \E n \in 1..Len(w.queue) : w.queue[n].k = k

RenderDraws(w) ==
  IF QueueHas(w, "end") /\ (w.audioState.shuffle \/ QueueHas(w, "toggleShuffle"))
  THEN Draws ELSE {<<1, 2>>}

HandlerDraws(w) == IF w.audioState.shuffle THEN Draws ELSE {<<1, 2>>}

\* ------------------------------------------------- React and timer steps
\* a scheduled render of pending updates
Render ==
  /\ mounted
  /\ queue # <<>>
  /\ \E p \in RenderDraws(World) : Becomes(RenderW(World, p[1], p[2]))

\* the passive effects of the last commit
FlushEffects ==
  /\ FxPending(World)
  /\ Becomes(RunEffects(World))

\* The router shows a new location: the component renders with it, pending
\* updates included.  The effects of the previous commit run first, and a
\* navigation they start is in flight afterwards.
Navigated(w, loc, ext, rnd, alt) ==
  LET w1 == FlushFx([w EXCEPT !.nav = NoLocation,
                              !.hist.last = IF ext THEN NoTrack ELSE @])
  IN Commit([w1 EXCEPT !.url = loc, !.hist.ext = ext], rnd, alt)

\* the location of the hook's own navigation is shown
NavCommit ==
  /\ mounted
  /\ nav # NoLocation
  /\ \E p \in RenderDraws(World) :
       Becomes(Navigated(World, nav, FALSE, p[1], p[2]))

\* setTimeout(() => { isNavigating.current = false; }, 0).  Every call of
\* handleTrackSelect sets the flag and starts such a timer, so a timer is
\* pending whenever the flag is set, and one that finds it reset changes
\* nothing.
ResetNavigating ==
  /\ isNavigating
  /\ Becomes([World EXCEPT !.isNavigating = FALSE])

\* the setInterval callback of startPositionTracking, and the render of the
\* update it makes
PollTick ==
  /\ mounted
  /\ positionInterval # 0
  /\ \E p \in RenderDraws(World) :
       Becomes(RenderW(setAudioState(World, Plain("tick")), p[1], p[2]))

\* -------------------------------------------------------- Howl events
\* the audio finished loading: onload -> callbacks.onLoad(sound.duration())
SoundLoad(i) ==
  /\ mounted
  /\ Live(sounds[i])
  /\ ~sounds[i].loaded
  /\ ~sounds[i].failed
  /\ LET sd == [sounds[i] EXCEPT !.loaded = TRUE, !.playing = @ \/ sounds[i].wantPlay]
     IN Becomes(setAudioState([World EXCEPT !.sounds[i] = sd],
                  Upd("load", NoTrack, NoSound, HowlDuration(sd), NoTrack)))

\* The load of a sound fails: createSound's onloaderror calls
\* callbacks.onLoadError, which no caller of createSound gives.  failed says
\* that the sound will never be loaded.
SoundLoadError(i) ==
  /\ mounted
  /\ Live(sounds[i])
  /\ ~sounds[i].loaded
  /\ ~sounds[i].failed
  /\ Becomes([World EXCEPT !.sounds[i].failed = TRUE])

\* Playback time passes, in seconds; renders, effects, navigations and
\* zero-delay timers take milliseconds and are over by then.
Settled(w) ==
  /\ w.queue = <<>>
  /\ w.nav = NoLocation
  /\ ~w.isNavigating
  /\ ~FxPending(w)

SoundAdvance(i) ==
  /\ mounted
  /\ Settled(World)
  /\ HowlPlaying(sounds[i])
  /\ sounds[i].pos < TrackDuration(sounds[i].track)
  /\ Becomes([World EXCEPT !.sounds[i].pos = @ + TimeStep])

\* the sound played to its end: onend -> callbacks.onEnd()
SoundEnd(i) ==
  /\ mounted
  /\ HowlPlaying(sounds[i])
  /\ sounds[i].pos = TrackDuration(sounds[i].track)
  /\ Becomes(setAudioState(
       [World EXCEPT !.sounds[i] =
          [@ EXCEPT !.playing = FALSE, !.wantPlay = FALSE, !.pos = 0]],
       Upd("end", sounds[i].track, NoSound, 0, sounds[i].hsel)))

\* ----------------------------------------------------------- user events
\* the page takes input once it is mounted, its mount effects have run and
\* the state they set is rendered
Interactive ==
  /\ mounted
  /\ deps.ran
  /\ \A n \in 1..Len(queue) : queue[n].k # "init"

\* click on a track of the list: Track.handleClick -> handleTrackSelect
ClickTrack(t) ==
  /\ Interactive
  /\ LET w == handleTrackSelect(World, t, audioState.selectedTrack)
     IN \E p \in RenderDraws(World) :
          Becomes(SettleSync([w EXCEPT !.threw = FALSE], p[1], p[2]))

\* a faulty variant: after the last track the first one is selected
playNextWraps(w, rnd, alt) ==
  LET st == w.audioState
      nextTrack == getNextTrack(st.selectedTrack, Catalog, st.shuffle,
                                st.loop, rnd, alt)
  IN IF nextTrack # NoTrack
     THEN handleTrackSelect(w, nextTrack, st.selectedTrack)
     ELSE handleTrackSelect(w, SongAt(Catalog, 0), st.selectedTrack)

playNext(w, rnd, alt) ==
  LET st == w.audioState
      nextTrack == getNextTrack(st.selectedTrack, Catalog, st.shuffle,
                                st.loop, rnd, alt)
  IN IF nextTrack # NoTrack
     THEN handleTrackSelect(w, nextTrack, st.selectedTrack)
     ELSE w

RestartCurrent(w) ==
  LET st == w.audioState
  IN IF st.sound # NoSound /\ st.selectedTrack # NoTrack
     THEN setAudioState([w EXCEPT !.sounds[st.sound] = HowlSeekTo(@, 0)],
                        Plain("pos0"))
     ELSE w

\* a faulty variant: the position is not looked at
playPrevIgnoresPosition(w, rnd, alt) ==
  LET st == w.audioState
      prevTrack == getPreviousTrack(st.selectedTrack, Catalog,
                                    st.shuffle, st.loop, rnd, alt)
  IN IF prevTrack # NoTrack
     THEN handleTrackSelect(w, prevTrack, st.selectedTrack)
     ELSE RestartCurrent(w)

\* a faulty variant: at the threshold the current track restarts
playPrevFromThreshold(w, rnd, alt) ==
  LET st == w.audioState
  IN IF st.position >= RestartThreshold
     THEN RestartCurrent(w)
     ELSE LET prevTrack == getPreviousTrack(st.selectedTrack, Catalog,
                                            st.shuffle, st.loop, rnd, alt)
          IN IF prevTrack # NoTrack
             THEN handleTrackSelect(w, prevTrack, st.selectedTrack)
             ELSE RestartCurrent(w)

playPrev(w, rnd, alt) ==
  LET st == w.audioState
      currentPosition == st.position
  IN IF currentPosition > RestartThreshold
     THEN RestartCurrent(w)
     ELSE LET prevTrack == getPreviousTrack(st.selectedTrack, Catalog,
                                            st.shuffle, st.loop, rnd, alt)
          IN IF prevTrack # NoTrack
             THEN handleTrackSelect(w, prevTrack, st.selectedTrack)
             ELSE RestartCurrent(w)

\* q draws for the handler itself, p for the render that follows
PlayNext ==
  /\ Interactive
  /\ \E q \in HandlerDraws(World) : \E p \in RenderDraws(World) :
       Becomes(SettleSync([playNext(World, q[1], q[2]) EXCEPT !.threw = FALSE],
                          p[1], p[2]))

PlayPrev ==
  /\ Interactive
  /\ \E q \in HandlerDraws(World) : \E p \in RenderDraws(World) :
       Becomes(SettleSync([playPrev(World, q[1], q[2]) EXCEPT !.threw = FALSE],
                          p[1], p[2]))

\* a faulty variant: the button also rewinds
ToggleRewinds(k) ==
  /\ Interactive
  /\ LET w == setAudioState(setAudioState(World, Plain(k)), Plain("pos0"))
     IN \E p \in RenderDraws(w) : Becomes(SettleSync(w, p[1], p[2]))

Toggle(k) ==
  /\ Interactive
  /\ \E p \in RenderDraws(setAudioState(World, Plain(k))) :
       Becomes(SettleSync(setAudioState(World, Plain(k)), p[1], p[2]))

TogglePlay == Toggle("togglePlay")

ToggleShuffle == Toggle("toggleShuffle")

ToggleLoop == Toggle("toggleLoop")

\* Back/forward or an edited address: a navigation the hook did not issue.
\* It supersedes a navigation of the hook that is still in flight.
ExternalNav(loc) ==
  /\ Interactive
  /\ loc # url
  /\ rev = "path" => Len(loc) <= 1
  /\ \E p \in RenderDraws(World) :
       Becomes(Navigated(World, loc, TRUE, p[1], p[2]))

\* the player unmounts
\* The progress slider: min 0, max audioState.duration of the last render.
\* Of its values the ones playback passes through are tried.
SliderValues(max) == {v \in 0..max : v % TimeStep = 0}

\* a faulty variant: every move of the slider seeks the sound
DragSeeks(v) ==
  /\ Interactive
  /\ v \in SliderValues(audioState.duration)
  /\ \E p \in RenderDraws(World) :
       LET w == RenderW(setAudioState([World EXCEPT !.drag = v],
                          Upd("drag", NoTrack, NoSound, v, NoTrack)),
                        p[1], p[2])
       IN Becomes(IF w.audioState.sound = NoSound THEN w
                  ELSE [w EXCEPT !.sounds[w.audioState.sound] =
                                    HowlSeekTo(@, v)])

\* onChange, while the slider moves: position follows the slider, in the
\* render of the update
Drag(v) ==
  /\ Interactive
  /\ v \in SliderValues(audioState.duration)
  /\ \E p \in RenderDraws(World) :
       Becomes(RenderW(setAudioState([World EXCEPT !.drag = v],
                         Upd("drag", NoTrack, NoSound, v, NoTrack)),
                       p[1], p[2]))

\* onChangeEnd, on release: the sound of the last render is seeked
CommitSeek ==
  /\ mounted
  /\ drag # NoDrag
  /\ LET sound == audioState.sound
         w == [World EXCEPT !.drag = NoDrag]
     IN IF sound = NoSound THEN Becomes(w)
        ELSE Becomes([w EXCEPT !.sounds[sound] = HowlSeekTo(@, drag)])

Unmount ==
  /\ mounted
  /\ Becomes(UnmountCleanup(World))

\* ------------------------------------------------------------------ Next
Common ==
  \/ Render
  \/ FlushEffects
  \/ NavCommit
  \/ PollTick
  \/ \E i \in 1..Len(sounds) : SoundLoad(i)
  \/ \E i \in 1..Len(sounds) : SoundLoadError(i)
  \/ \E i \in 1..Len(sounds) : SoundAdvance(i)
  \/ \E i \in 1..Len(sounds) : SoundEnd(i)
  \/ \E t \in Tracks : ClickTrack(t)
  \/ PlayNext
  \/ PlayPrev
  \/ TogglePlay
  \/ ToggleShuffle
  \/ ToggleLoop
  \/ \E loc \in Locations : ExternalNav(loc)
  \/ Unmount

NextSearch == Common

\* the "search" revision with the progress slider of PlayControl; shuffle
\* and loop keep the values the initialization gave them
NextSlider ==
  \/ Render
  \/ FlushEffects
  \/ NavCommit
  \/ PollTick
  \/ \E i \in 1..Len(sounds) : SoundLoad(i)
  \/ \E i \in 1..Len(sounds) : SoundLoadError(i)
  \/ \E i \in 1..Len(sounds) : SoundAdvance(i)
  \/ \E i \in 1..Len(sounds) : SoundEnd(i)
  \/ \E t \in Tracks : ClickTrack(t)
  \/ PlayNext
  \/ PlayPrev
  \/ TogglePlay
  \/ \E loc \in Locations : ExternalNav(loc)
  \/ Unmount
  \/ \E v \in 0..2 * TimeStep : Drag(v)
  \/ CommitSeek

NextPath == Common \/ ResetNavigating

Next == Common \/ ResetNavigating

SpecSearch == InitRev("search") /\ [][NextSearch]_vars

SpecSlider == InitRev("search") /\ [][NextSlider]_vars

SpecPath == InitRev("path") /\ [][NextPath]_vars

Spec == Init /\ [][Next]_vars

\* ----------------------------------------- the functions of audioUtils
\* The track-advance functions on their own: Init draws a catalog of up to
\* MaxCatalog tracks, a current track or none, shuffle, loop and two random
\* draws; a step makes one call and keeps its result.  The player stands
\* still.
SongsOf(n) == [i \in 1..n |-> i]

DrawsOf(n) == IF n = 0 THEN {1} ELSE 1..n

InitPolicy ==
  /\ rev = "search"
  /\ mounted = TRUE
  /\ audioState = InitialAudioState
  /\ queue = <<>>
  /\ sounds = <<>>
  /\ url = NoLocation
  /\ nav = NoLocation
  /\ isNavigating = FALSE
  /\ positionInterval = 0
  /\ drag = NoDrag
  /\ multi = NoSession
  /\ deps = [ran |-> FALSE, url |-> NoLocation, sel |-> NoTrack,
             sound |-> NoSound, isPlaying |-> FALSE]
  /\ hist = [ext |-> FALSE, redundant |-> FALSE, last |-> NoTrack,
             inits |-> 0]
  /\ \E n \in 0..MaxCatalog : \E cur \in 0..n :
     \E shuffle \in BOOLEAN : \E loop \in Loops :
     \E rnd \in DrawsOf(n) : \E alt \in DrawsOf(n) :
       policy = [n |-> n, cur |-> cur, shuffle |-> shuffle, loop |-> loop,
                 rnd |-> rnd, alt |-> alt, op |-> "none", out |-> NoTrack]

Call(op, out) ==
  /\ policy.op = "none"
  /\ policy' = [policy EXCEPT !.op = op, !.out = out]
  /\ UNCHANGED <<rev, mounted, audioState, queue, sounds, url, nav,
                 isNavigating, positionInterval, deps, drag, multi, hist>>

CallNextTrack ==
  Call("getNextTrack",
       getNextTrack(policy.cur, SongsOf(policy.n), policy.shuffle,
                    policy.loop, policy.rnd, policy.alt))

CallPreviousTrack ==
  Call("getPreviousTrack",
       getPreviousTrack(policy.cur, SongsOf(policy.n), policy.shuffle,
                        policy.loop, policy.rnd, policy.alt))

CallRandomTrack ==
  Call("getRandomTrack",
       getRandomTrack(policy.cur, SongsOf(policy.n), policy.rnd, policy.alt))

\* the index functions are called with the index of a track of the catalog
CallNextTrackIndex ==
  /\ policy.cur # NoTrack
  /\ Call("getNextTrackIndex",
          getNextTrackIndex(TrackIndex(policy.cur), policy.n))

CallPreviousTrackIndex ==
  /\ policy.cur # NoTrack
  /\ Call("getPreviousTrackIndex",
          getPreviousTrackIndex(TrackIndex(policy.cur)))

NextPolicy ==
  \/ CallNextTrack
  \/ CallPreviousTrack
  \/ CallRandomTrack
  \/ CallNextTrackIndex
  \/ CallPreviousTrackIndex

SpecPolicy == InitPolicy /\ [][NextPolicy]_vars

\* The same calls with a current track that may be a track of no catalog
\* position: track n + 1 has an id that no song of SongsOf(n) has, and an
\* index past its end.
InitAnyCurrent ==
  /\ rev = "search"
  /\ mounted = TRUE
  /\ audioState = InitialAudioState
  /\ queue = <<>>
  /\ sounds = <<>>
  /\ url = NoLocation
  /\ nav = NoLocation
  /\ isNavigating = FALSE
  /\ positionInterval = 0
  /\ drag = NoDrag
  /\ multi = NoSession
  /\ deps = [ran |-> FALSE, url |-> NoLocation, sel |-> NoTrack,
             sound |-> NoSound, isPlaying |-> FALSE]
  /\ hist = [ext |-> FALSE, redundant |-> FALSE, last |-> NoTrack,
             inits |-> 0]
  /\ \E n \in 0..MaxCatalog : \E cur \in 0..(n + 1) :
     \E shuffle \in BOOLEAN : \E loop \in Loops :
     \E rnd \in DrawsOf(n) : \E alt \in DrawsOf(n) :
       policy = [n |-> n, cur |-> cur, shuffle |-> shuffle, loop |-> loop,
                 rnd |-> rnd, alt |-> alt, op |-> "none", out |-> NoTrack]

SpecAnyCurrent == InitAnyCurrent /\ [][NextPolicy]_vars

\* ------------------------------------------------- the multi-stem session
\* useMultiTrackPlayer on its own: the view is given a list of up to
\* NumStems stems (under SpecStemLists at most MaxLists lists one after the
\* other), and at most MaxPending updates of callbacks wait for a render.  The single-track player
\* stands still.
NumStems == 2

MaxLists == 2

MaxPending == 1

\* a stem as authored: its default flags and whether it has an audio file
AuthoredStems == [muted : BOOLEAN, solo : BOOLEAN, file : BOOLEAN]

StemLists == UNION {[1..n -> AuthoredStems] : n \in 0..NumStems}

\* sound.duration() of the Howl of a stem: the stems differ in length
StemDuration(stem) == stem

SeekOffsets == 0..1

\* The Howl of a stem.  list is the number of the stem list it was created
\* for; voices counts the instances of the sound that play at once (2: two or
\* more); wantPlay is the play request Howler holds until the load
\* completes; mute is the mute setting last given to it.
StemHowlNew(stem, list) ==
  [stem |-> stem, list |-> list, status |-> "loading", voices |-> 0,
   wantPlay |-> FALSE, pos |-> 0, mute |-> FALSE, unloads |-> 0]

StemHowlPlaying(h) == Live(h) /\ h.voices > 0

\* play() of a Howl that already plays starts one more instance of it
StemHowlPlay(h) ==
  IF ~Live(h) THEN h
  ELSE IF h.status = "loaded"
       THEN [h EXCEPT !.voices = IF @ < 2 THEN @ + 1 ELSE @]
  ELSE [h EXCEPT !.wantPlay = TRUE]

StemHowlPause(h) ==
  IF ~Live(h) THEN h ELSE [h EXCEPT !.voices = 0, !.wantPlay = FALSE]

StemHowlSeekTo(h, offset) ==
  IF ~Live(h) THEN h ELSE [h EXCEPT !.pos = offset]

StemHowlSeek(h) == IF Live(h) /\ h.status = "loaded" THEN h.pos ELSE 0

StemHowlMute(h, muted) == IF ~Live(h) THEN h ELSE [h EXCEPT !.mute = muted]

StemHowlUnload(h) ==
  [h EXCEPT !.status = "unloaded", !.voices = 0, !.wantPlay = FALSE,
            !.pos = 0, !.mute = FALSE,
            !.unloads = IF @ < 2 THEN @ + 1 ELSE @]

\* setState of the hook: an update of an unmounted component is dropped
MultiUpd(kind, stem, value, tracks) ==
  [kind |-> kind, stem |-> stem, value |-> value, tracks |-> tracks]

multiSetState(m, u) ==
  IF m.mounted THEN [m EXCEPT !.queue = Append(@, u)] ELSE m

\* the Howls that the entries of a stem map hold
OwnedHowls(tracks) ==
  {tracks[i].sound : i \in 1..Len(tracks)} \ {NoSound}

getEffectiveMuteState(trackState, allTracks) ==
  LET anySolo == \E i \in 1..Len(allTracks) : allTracks[i].solo
  IN IF anySolo THEN (~trackState.solo) \/ trackState.muted
     ELSE trackState.muted

applyMuteStates(howls, tracks) ==
  [h \in 1..Len(howls) |->
     IF h \in OwnedHowls(tracks)
     THEN LET i == CHOOSE i \in 1..Len(tracks) : tracks[i].sound = h
          IN StemHowlMute(howls[h], getEffectiveMuteState(tracks[i], tracks))
     ELSE howls[h]]

\* ---- the initialization effect
Filed(stems) == {i \in 1..Len(stems) : stems[i].file}

newTracks(m) ==
  [i \in 1..Len(m.tracks) |->
     IF ~m.tracks[i].file
     THEN [sound |-> NoSound, muted |-> m.tracks[i].muted,
           solo |-> m.tracks[i].solo, loading |-> FALSE,
           error |-> "No audio file available"]
     ELSE [sound |-> Len(m.howls)
                       + Cardinality({j \in Filed(m.tracks) : j <= i}),
           muted |-> m.tracks[i].muted, solo |-> m.tracks[i].solo,
           loading |-> TRUE, error |-> "null"]]

newHowls(m) ==
  LET filed == Filed(m.tracks)
  IN [k \in 1..Cardinality(filed) |->
        StemHowlNew(CHOOSE i \in filed :
                      Cardinality({j \in filed : j <= i}) = k,
                    m.lists)]

MultiInitCleanupKeepsSounds(m) ==
  IF m.cleanup = 0 THEN m
  ELSE [m EXCEPT !.loadTimeout = "none", !.soundsInitialized = FALSE,
                 !.cleanup = 0]

\* the cleanup the effect returned, if it returned one
MultiInitCleanup(m) ==
  IF m.cleanup = 0 THEN m
  ELSE [m EXCEPT
          !.loadTimeout = "none",
          !.soundsInitialized = FALSE,
          !.howls = [h \in 1..Len(m.howls) |->
                       IF m.howls[h].list = m.cleanup /\ Live(m.howls[h])
                       THEN StemHowlUnload(m.howls[h]) ELSE m.howls[h]],
          !.cleanup = 0]

MultiInitEffect(m) ==
  IF m.soundsInitialized \/ Len(m.tracks) = 0 THEN m
  ELSE multiSetState(
         [m EXCEPT !.soundsInitialized = TRUE,
                   !.loadTimeout = "armed",
                   !.howls = m.howls \o newHowls(m),
                   !.cleanup = m.lists],
         MultiUpd("init", 0, 0, newTracks(m)))

\* ---- the updaters
LoadTimeoutUpdater(m) ==
  LET prev == m.state
      hasUnloadedTracks == \E i \in 1..Len(prev.tracks) :
                              prev.tracks[i].loading
  IN IF hasUnloadedTracks
     THEN [m EXCEPT
             !.state.tracks =
                [i \in 1..Len(prev.tracks) |->
                   IF prev.tracks[i].loading
                   THEN [prev.tracks[i] EXCEPT !.loading = FALSE,
                                               !.error = "Loading timeout"]
                   ELSE prev.tracks[i]],
             !.state.loading = FALSE]
     ELSE m

AnyLoading(tracks) == \E i \in 1..Len(tracks) : tracks[i].loading

\* a faulty variant: the stem that loads last sets the duration
OnLoadUpdaterLastWins(m, id, duration) ==
  LET prev == m.state
      tracks == IF id \in 1..Len(prev.tracks)
                THEN [prev.tracks EXCEPT ![id].loading = FALSE,
                                         ![id].error = "null"]
                ELSE prev.tracks
  IN [m EXCEPT !.state.tracks = tracks,
               !.state.duration = duration,
               !.state.loading = AnyLoading(tracks)]

OnLoadUpdater(m, id, duration) ==
  LET prev == m.state
      tracks == IF id \in 1..Len(prev.tracks)
                THEN [prev.tracks EXCEPT ![id].loading = FALSE,
                                         ![id].error = "null"]
                ELSE prev.tracks
  IN [m EXCEPT !.state.tracks = tracks,
               !.state.duration = IF prev.duration > duration
                                  THEN prev.duration ELSE duration,
               !.state.loading = AnyLoading(tracks)]

OnLoadErrorUpdaterAll(m, id) ==
  [m EXCEPT !.state.tracks =
               [i \in 1..Len(m.state.tracks) |->
                  [m.state.tracks[i] EXCEPT
                     !.loading = FALSE, !.error = "Failed to load audio"]],
            !.state.loading = FALSE]

OnLoadErrorUpdater(m, id) ==
  LET prev == m.state
      tracks == IF id \in 1..Len(prev.tracks)
                THEN [prev.tracks EXCEPT ![id].loading = FALSE,
                                         ![id].error = "Failed to load audio"]
                ELSE prev.tracks
  IN [m EXCEPT !.state.tracks = tracks,
               !.state.loading = AnyLoading(tracks)]

MultiTickUpdater(m) ==
  LET owned == OwnedHowls(m.state.tracks)
  IN IF owned = {} THEN m
     ELSE LET first == CHOOSE i \in 1..Len(m.state.tracks) :
                          /\ m.state.tracks[i].sound # NoSound
                          /\ \A j \in 1..(i - 1) :
                               m.state.tracks[j].sound = NoSound
          IN [m EXCEPT !.state.position =
                          StemHowlSeek(m.howls[m.state.tracks[first].sound])]

PlayUpdaterUnguarded(m) ==
  [m EXCEPT
     !.howls = [h \in 1..Len(m.howls) |->
                  IF h \in OwnedHowls(m.state.tracks)
                  THEN StemHowlPlay(m.howls[h]) ELSE m.howls[h]],
     !.state.isPlaying = TRUE]

PlayUpdater(m) ==
  [m EXCEPT
     !.howls = [h \in 1..Len(m.howls) |->
                  IF h \in OwnedHowls(m.state.tracks)
                     /\ ~StemHowlPlaying(m.howls[h])
                  THEN StemHowlPlay(m.howls[h]) ELSE m.howls[h]],
     !.state.isPlaying = TRUE]

PauseUpdater(m) ==
  [m EXCEPT
     !.howls = [h \in 1..Len(m.howls) |->
                  IF h \in OwnedHowls(m.state.tracks)
                  THEN StemHowlPause(m.howls[h]) ELSE m.howls[h]],
     !.state.isPlaying = FALSE]

SeekUpdater(m, position) ==
  [m EXCEPT
     !.howls = [h \in 1..Len(m.howls) |->
                  IF h \in OwnedHowls(m.state.tracks)
                  THEN StemHowlSeekTo(m.howls[h], position) ELSE m.howls[h]],
     !.state.position = position]

ToggleMuteUpdater(m, trackId) ==
  LET prev == m.state
      tracks == IF trackId \in 1..Len(prev.tracks)
                THEN [prev.tracks EXCEPT ![trackId].muted = ~@]
                ELSE prev.tracks
  IN [m EXCEPT !.howls = applyMuteStates(m.howls, tracks),
               !.state.tracks = tracks]

ToggleSoloUpdaterOnlyNamed(m, trackId) ==
  LET prev == m.state
      tracks == IF trackId \in 1..Len(prev.tracks)
                THEN [prev.tracks EXCEPT ![trackId].solo = ~@]
                ELSE prev.tracks
      only == IF trackId \in 1..Len(prev.tracks)
              THEN {tracks[trackId].sound} \ {NoSound} ELSE {}
  IN [m EXCEPT
        !.howls = [h \in 1..Len(m.howls) |->
                     IF h \in only
                     THEN StemHowlMute(m.howls[h],
                            getEffectiveMuteState(tracks[trackId], tracks))
                     ELSE m.howls[h]],
        !.state.tracks = tracks]

ToggleSoloUpdater(m, trackId) ==
  LET prev == m.state
      tracks == IF trackId \in 1..Len(prev.tracks)
                THEN [prev.tracks EXCEPT ![trackId].solo = ~@]
                ELSE prev.tracks
  IN [m EXCEPT !.howls = applyMuteStates(m.howls, tracks),
               !.state.tracks = tracks]

ApplyMultiUpdater(m, u) ==
  CASE u.kind = "init" ->
         [m EXCEPT !.state = [tracks |-> u.tracks, isPlaying |-> FALSE,
                              position |-> 0, duration |-> 0,
                              loading |-> TRUE]]
    [] u.kind = "timeout" -> LoadTimeoutUpdater(m)
    [] u.kind = "load" -> OnLoadUpdater(m, u.stem, u.value)
    [] u.kind = "loaderror" -> OnLoadErrorUpdater(m, u.stem)
    [] u.kind = "tick" -> MultiTickUpdater(m)
    [] u.kind = "play" -> PlayUpdater(m)
    [] u.kind = "pause" -> PauseUpdater(m)
    [] u.kind = "seek" -> SeekUpdater(m, u.value)
    [] u.kind = "toggleMute" -> ToggleMuteUpdater(m, u.stem)
    [] u.kind = "toggleSolo" -> ToggleSoloUpdater(m, u.stem)

\* a render applies the waiting updates in the order they were made
RECURSIVE MultiDrain(_)
MultiDrain(m) ==
  IF m.queue = <<>> THEN m
  ELSE MultiDrain(ApplyMultiUpdater([m EXCEPT !.queue = Tail(@)],
                                    Head(m.queue)))

\* ---- the operations the hook returns, and the clicks that call them: a
\* click is a discrete event, its updates are rendered before it returns
multiStartPositionTracking(m) ==
  IF m.positionInterval # 0 THEN m
  ELSE [m EXCEPT !.positionInterval = @ + 1]

multiStopPositionTracking(m) ==
  IF m.positionInterval # 0 THEN [m EXCEPT !.positionInterval = 0] ELSE m

play(m) ==
  multiStartPositionTracking(multiSetState(m, MultiUpd("play", 0, 0, <<>>)))

pause(m) ==
  multiStopPositionTracking(multiSetState(m, MultiUpd("pause", 0, 0, <<>>)))

seek(m, position) == multiSetState(m, MultiUpd("seek", 0, position, <<>>))

toggleMute(m, trackId) ==
  multiSetState(m, MultiUpd("toggleMute", trackId, 0, <<>>))

toggleSolo(m, trackId) ==
  multiSetState(m, MultiUpd("toggleSolo", trackId, 0, <<>>))

\* ---- steps
MultiBecomes(m) ==
  /\ multi' = m
  /\ UNCHANGED <<rev, mounted, audioState, queue, sounds, url, nav,
                 isNavigating, positionInterval, deps, drag, policy, hist>>

\* the view is shown and its effects have run; updates wait for a render
\* no longer than MaxPending of them
MultiReady == multi.mounted /\ ~multi.fx

InitStems ==
  /\ rev = "search"
  /\ mounted = TRUE
  /\ audioState = InitialAudioState
  /\ queue = <<>>
  /\ sounds = <<>>
  /\ url = NoLocation
  /\ nav = NoLocation
  /\ isNavigating = FALSE
  /\ positionInterval = 0
  /\ drag = NoDrag
  /\ policy = NoCall
  /\ deps = [ran |-> FALSE, url |-> NoLocation, sel |-> NoTrack,
             sound |-> NoSound, isPlaying |-> FALSE]
  /\ hist = [ext |-> FALSE, redundant |-> FALSE, last |-> NoTrack,
             inits |-> 0]
  /\ \E list \in StemLists :
       multi = [NoSession EXCEPT !.mounted = TRUE, !.tracks = list,
                                 !.lists = 1, !.fx = TRUE]

\* The initialization effect runs for the list of the last render, after the
\* cleanup of its previous run, and the state it sets is rendered: the Howls
\* it created have not begun to load, and an update a timer makes meanwhile
\* is applied after the effect's.
MultiRunEffects(m) ==
  MultiDrain([MultiInitEffect(MultiInitCleanup(m))
                EXCEPT !.fx = FALSE, !.tracks = <<>>])

\* the view is shown for the first time
MultiMount ==
  /\ multi.mounted
  /\ multi.fx
  /\ MultiBecomes(MultiRunEffects(multi))

\* the parent renders the view with another stem list
ChangeStems(list) ==
  /\ MultiReady
  /\ multi.lists < MaxLists
  /\ MultiBecomes(MultiRunEffects([MultiDrain(multi)
                                     EXCEPT !.tracks = list,
                                            !.lists = @ + 1,
                                            !.fx = TRUE]))

MultiRender ==
  /\ MultiReady
  /\ multi.queue # <<>>
  /\ MultiBecomes(MultiDrain(multi))

StemLoad(h) ==
  /\ MultiReady
  /\ Len(multi.queue) < MaxPending
  /\ h \in 1..Len(multi.howls)
  /\ Live(multi.howls[h])
  /\ multi.howls[h].status = "loading"
  /\ MultiBecomes(
       multiSetState(
         [multi EXCEPT !.howls[h].status = "loaded",
                       !.howls[h].voices =
                          IF multi.howls[h].wantPlay THEN 1 ELSE 0,
                       !.howls[h].wantPlay = FALSE],
         MultiUpd("load", multi.howls[h].stem,
                  StemDuration(multi.howls[h].stem), <<>>)))

StemLoadError(h) ==
  /\ MultiReady
  /\ Len(multi.queue) < MaxPending
  /\ h \in 1..Len(multi.howls)
  /\ Live(multi.howls[h])
  /\ multi.howls[h].status = "loading"
  /\ MultiBecomes(
       multiSetState([multi EXCEPT !.howls[h].status = "error"],
                     MultiUpd("loaderror", multi.howls[h].stem, 0, <<>>)))

\* a stem plays to its end: no onend is wired, the session is not told
StemEnded(h) ==
  /\ MultiReady
  /\ h \in 1..Len(multi.howls)
  /\ StemHowlPlaying(multi.howls[h])
  /\ MultiBecomes([multi EXCEPT !.howls[h].voices = 0, !.howls[h].pos = 0])

\* the timer fires once, whatever else waits
LoadTimeout ==
  /\ MultiReady
  /\ multi.loadTimeout = "armed"
  /\ MultiBecomes(multiSetState([multi EXCEPT !.loadTimeout = "fired"],
                                MultiUpd("timeout", 0, 0, <<>>)))

MultiTick ==
  /\ MultiReady
  /\ Len(multi.queue) < MaxPending
  /\ multi.positionInterval # 0
  /\ MultiBecomes(multiSetState(multi, MultiUpd("tick", 0, 0, <<>>)))

Play == MultiReady /\ MultiBecomes(MultiDrain(play(multi)))

Pause == MultiReady /\ MultiBecomes(MultiDrain(pause(multi)))

Seek(position) ==
  MultiReady /\ MultiBecomes(MultiDrain(seek(multi, position)))

ToggleMute(trackId) ==
  MultiReady /\ MultiBecomes(MultiDrain(toggleMute(multi, trackId)))

ToggleSolo(trackId) ==
  MultiReady /\ MultiBecomes(MultiDrain(toggleSolo(multi, trackId)))

\* the view goes away: the cleanups of both effects run
MultiUnmount ==
  /\ multi.mounted
  /\ MultiBecomes([multiStopPositionTracking(MultiInitCleanup(multi))
                     EXCEPT !.mounted = FALSE, !.queue = <<>>,
                            !.fx = FALSE])

NextStems ==
  \/ MultiMount
  \/ MultiRender
  \/ \E h \in 1..(MaxLists * NumStems) : StemLoad(h) \/ StemLoadError(h)
                                          \/ StemEnded(h)
  \/ LoadTimeout
  \/ MultiTick
  \/ Play
  \/ Pause
  \/ \E position \in SeekOffsets : Seek(position)
  \/ \E trackId \in 1..NumStems : ToggleMute(trackId) \/ ToggleSolo(trackId)
  \/ MultiUnmount

SpecStems == InitStems /\ [][NextStems]_vars

\* the same with a view that is given one stem list after another
\* The same with the scheduling the platform gives: a mounted view runs its
\* effects, a scheduled render is made, and an armed timer fires unless it
\* is cleared.
SpecStemsFair ==
  SpecStems /\ WF_vars(MultiMount) /\ WF_vars(MultiRender)
            /\ WF_vars(LoadTimeout)

SpecStemLists ==
  InitStems /\ [][NextStems \/ \E list \in StemLists : ChangeStems(list)]_vars

\* ------------------------------------------------------------ properties
TypeOK ==
  /\ rev \in Revs
  /\ mounted \in BOOLEAN
  /\ audioState.selectedTrack \in Tracks \cup {NoTrack}
  /\ audioState.sound \in 0..Len(sounds)
  /\ Len(sounds) <= MaxSounds

\* C1: in every reachable state at most one sound that was created and not
\* yet disposed exists.
C1_AtMostOneLiveSound == Cardinality(LiveSounds(sounds)) <= 1

\* a track change happened: the previous sound is disposed, the new one live
C1_Witness ==
  /\ mounted
  /\ \E i \in 1..Len(sounds) : ~Live(sounds[i])
  /\ \E j \in 1..Len(sounds) : Live(sounds[j]) /\ ~sounds[j].initial

\* C2: when a selection replaces the owned sound, the previous sound is
\* stopped and unloaded exactly once, and no sound was live any more when
\* the new one was created.
C2_DisposeOnceBeforeCreate ==
  \A i \in 1..Len(sounds) :
    /\ ~Live(sounds[i]) => sounds[i].stops = 1 /\ sounds[i].unloads = 1
    /\ ~sounds[i].initial => sounds[i].liveAtCreate = 0

\* the sound of track A is disposed and the session owns the one a selection
\* created
C2_Witness ==
  /\ mounted
  /\ audioState.sound # NoSound
  /\ Live(sounds[audioState.sound])
  /\ ~sounds[audioState.sound].initial
  /\ \E i \in 1..Len(sounds) : sounds[i].unloads = 1

\* C3: whatever the state before, the state a selection of track t returns
\* has selectedTrack = t, position = 0, duration = 0, isPlaying = true and
\* owns a sound newly created for t.
C3_SelectPostcondition ==
  \A t \in Tracks :
    LET w == SelectUpdater(World, Upd("select", t, NoSound, 0,
                                       audioState.selectedTrack))
        st == w.audioState
    IN /\ st.selectedTrack = t
       /\ st.position = 0
       /\ st.duration = 0
       /\ st.isPlaying
       /\ Len(w.sounds) = Len(sounds) + 1
       /\ st.sound = Len(w.sounds)
       /\ Live(w.sounds[st.sound])
       /\ ~w.sounds[st.sound].loaded
       /\ w.sounds[st.sound].track = t

\* right after a selection made while another track's sound had a duration
C3_Witness ==
  /\ mounted
  /\ audioState.selectedTrack # NoTrack
  /\ audioState.isPlaying
  /\ audioState.position = 0
  /\ audioState.duration = 0
  /\ audioState.sound # NoSound
  /\ ~sounds[audioState.sound].initial
  /\ ~sounds[audioState.sound].loaded
  /\ sounds[audioState.sound].track = audioState.selectedTrack
  /\ deps.sound # audioState.sound

\* C4: once the player is unmounted, the sound it owned is disposed and the
\* polling timer is stopped.
C4_TeardownDisposesOwned ==
  ~mounted =>
    /\ audioState.sound # NoSound => ~Live(sounds[audioState.sound])
    /\ positionInterval = 0

\* C5: no step selects a track because of a location that the hook's own
\* navigation put there.
C5_NoRedundantSelection == ~hist.redundant

\* the location was changed from outside and names catalog track t while
\* another track is selected
ExternallyNamed(t) ==
  /\ mounted
  /\ hist.ext
  /\ audioState.selectedTrack # NoTrack
  /\ audioState.selectedTrack # t
  /\ getTrackParam(url) = TrackId(t)

\* C6: once every pending handler has run, a location that was changed from
\* outside and names a catalog track has made that track the selected one.
C6_ExternalNavigationSelects ==
  \A t \in Tracks : ~(Settled(World) /\ ExternallyNamed(t))

\* C7: after the last call of handleTrackSelect, for track X, the track id
\* read back from the location is X.id, and when all pending handlers have
\* run the selected track is X.
C7_UrlRoundTrip ==
  (mounted /\ hist.last # NoTrack) =>
    /\ nav # NoLocation => getTrackParam(nav) = TrackId(hist.last)
    /\ Settled(World) =>
         /\ getTrackParam(url) = TrackId(hist.last)
         /\ audioState.selectedTrack = hist.last

\* a selection replaced the initial sound and everything it started is over
C7_Witness ==
  /\ mounted
  /\ Settled(World)
  /\ hist.last # NoTrack
  /\ audioState.selectedTrack = hist.last
  /\ url = <<TrackId(hist.last)>>
  /\ audioState.sound # NoSound
  /\ ~sounds[audioState.sound].initial

\* the track the initialisation has to choose for a location
InitialTrack(loc) ==
  IF \E t \in Tracks : TrackId(t) = getTrackParam(loc)
  THEN CHOOSE t \in Tracks : TrackId(t) = getTrackParam(loc)
  ELSE Catalog[1]

\* C8: the initialisation runs at most once per mount; the state it sets
\* selects the track the location names if the catalog has it, the first
\* track otherwise, and owns the one sound it created for that track.
C8_InitialSelectionOnce ==
  /\ hist.inits <= 1
  /\ \A n \in 1..Len(queue) :
       queue[n].k = "init" =>
         /\ queue[n].track = InitialTrack(url)
         /\ sounds[queue[n].sound].initial
         /\ sounds[queue[n].sound].track = queue[n].track
         /\ LET w == InitUpdater(World, queue[n])
            IN /\ w.audioState.selectedTrack = queue[n].track
               /\ w.audioState.sound = queue[n].sound
  /\ Cardinality({i \in 1..Len(sounds) : sounds[i].initial}) <= hist.inits

\* the initialisation found the track the location names, not the first one
C8_Witness ==
  /\ mounted
  /\ hist.inits = 1
  /\ \E n \in 1..Len(queue) :
       /\ queue[n].k = "init"
       /\ queue[n].track # Catalog[1]
       /\ getTrackParam(url) = TrackId(queue[n].track)

\* the owned sound reported its end and the render that handles it is next
EndReported ==
  /\ mounted
  /\ ~FxPending(World)
  /\ Len(queue) = 1
  /\ queue[1].k = "end"
  /\ audioState.sound # NoSound
  /\ Live(sounds[audioState.sound])
  /\ sounds[audioState.sound].track = queue[1].track

\* C9: when the owned sound ends while loop = single, the render that
\* handles the end leaves the same sound owned, live, at position 0 and
\* playing, creates no sound, and leaves selectedTrack unchanged.
C9_LoopSingleReplays ==
  (EndReported /\ audioState.loop = "single") =>
    \A p \in RenderDraws(World) :
      LET w == RenderW(World, p[1], p[2])
      IN /\ w.audioState.sound = audioState.sound
         /\ Len(w.sounds) = Len(sounds)
         /\ Live(w.sounds[audioState.sound])
         /\ w.sounds[audioState.sound].pos = 0
         /\ w.sounds[audioState.sound].wantPlay
         /\ w.audioState.selectedTrack = audioState.selectedTrack

\* C10: when the owned sound ends while loop is not single, the render that
\* handles the end selects the next track if there is one; if there is
\* none it sets isPlaying to false, keeps the ended sound owned and
\* undisposed, and leaves selectedTrack and duration unchanged.
C10_EndAdvancesOrStops ==
  (EndReported /\ audioState.loop # "single") =>
    \A p \in RenderDraws(World) :
      LET nextTrack == getNextTrack(audioState.selectedTrack, Catalog,
                                    audioState.shuffle, audioState.loop,
                                    p[1], p[2])
          w == RenderW(World, p[1], p[2])
      IN IF nextTrack # NoTrack
         THEN /\ w.audioState.selectedTrack = nextTrack
              /\ w.audioState.sound # audioState.sound
              /\ w.sounds[w.audioState.sound].track = nextTrack
              /\ Live(w.sounds[w.audioState.sound])
         ELSE /\ ~w.audioState.isPlaying
              /\ w.audioState.sound = audioState.sound
              /\ Len(w.sounds) = Len(sounds)
              /\ Live(w.sounds[audioState.sound])
              /\ w.audioState.selectedTrack = audioState.selectedTrack
              /\ w.audioState.duration = audioState.duration

\* the last track ended with loop = none and shuffle off: there is no next
C10_Witness ==
  /\ EndReported
  /\ audioState.loop = "none"
  /\ ~audioState.shuffle
  /\ audioState.isPlaying
  /\ audioState.selectedTrack = Catalog[Len(Catalog)]
  /\ audioState.duration > 0

\* C11: there is never more than one polling interval, none runs while no
\* sound is owned, and once the effects of the last commit have run one is
\* running exactly when isPlaying is true and a sound is owned.
C11_PollingFollowsPlayback ==
  /\ positionInterval <= 1
  /\ positionInterval # 0 => audioState.sound # NoSound
  /\ (mounted /\ ~FxPending(World)) =>
       (positionInterval = 1 <=>
          (audioState.isPlaying /\ audioState.sound # NoSound))

\* the tracking effect ran again while the interval was running: a selection
\* replaced the owned sound during playback
C11_Witness ==
  /\ mounted
  /\ ~FxPending(World)
  /\ positionInterval = 1
  /\ audioState.isPlaying
  /\ audioState.sound # NoSound
  /\ ~sounds[audioState.sound].initial
  /\ sounds[audioState.sound].playing

C13_ReconcileOnMismatch ==
  LET w == ReconcileEffect(World)
      s == audioState.sound
  IN IF s = NoSound THEN w = World
     ELSE IF audioState.isPlaying /\ ~HowlPlaying(sounds[s])
     THEN /\ w = [World EXCEPT !.sounds[s] = w.sounds[s]]
          /\ w.sounds[s] = [sounds[s] EXCEPT !.playing = w.sounds[s].playing,
                                              !.wantPlay = TRUE]
          /\ w.sounds[s].playing = (Live(sounds[s]) /\ sounds[s].loaded)
     ELSE IF ~audioState.isPlaying /\ HowlPlaying(sounds[s])
     THEN /\ w = [World EXCEPT !.sounds[s] = w.sounds[s]]
          /\ w.sounds[s] = [sounds[s] EXCEPT !.playing = FALSE,
                                              !.wantPlay = FALSE]
     ELSE w = World

\* the effect is about to run on a loaded sound that has to be started
C13_Witness ==
  /\ FxPending(World)
  /\ audioState.sound # NoSound
  /\ audioState.isPlaying
  /\ sounds[audioState.sound].loaded
  /\ ~HowlPlaying(sounds[audioState.sound])

\* the page takes input, a track is selected and its sound owned, and
\* nothing else is in progress: no update (a polling tick, the end of the
\* sound), navigation or effect is pending
PrevPressable ==
  /\ Interactive
  /\ Settled(World)
  /\ audioState.selectedTrack # NoTrack
  /\ audioState.sound # NoSound

C16_NextWithoutNextIsNoOp ==
  \A q \in HandlerDraws(World) :
    getNextTrack(audioState.selectedTrack, Catalog, audioState.shuffle,
                 audioState.loop, q[1], q[2]) = NoTrack =>
      /\ playNext(World, q[1], q[2]) = World
      /\ (Interactive /\ Settled(World)) =>
           SettleSync(playNext(World, q[1], q[2]), q[1], q[2]) = World

\* the last track is selected and playing, shuffle off and loop = none
C16_Witness ==
  /\ Interactive
  /\ Settled(World)
  /\ audioState.selectedTrack = Catalog[Len(Catalog)]
  /\ ~audioState.shuffle
  /\ audioState.loop = "none"
  /\ audioState.isPlaying
  /\ audioState.position > 0

\* C17: with loop = single and a current track, getNextTrack and
\* getPreviousTrack return the current track, whatever shuffle is.
C17_LoopSingleReturnsCurrent ==
  (/\ policy.op \in {"getNextTrack", "getPreviousTrack"}
   /\ policy.loop = "single"
   /\ policy.cur # NoTrack) => policy.out = policy.cur

\* getNextTrack was called with loop = single, shuffle on and a first draw
\* that names another track
C17_Witness ==
  /\ policy.op = "getNextTrack"
  /\ policy.loop = "single"
  /\ policy.shuffle
  /\ policy.cur # NoTrack
  /\ policy.rnd # policy.cur
  /\ policy.n > 1

\* C18: with shuffle off and loop not single, getNextTrack returns the track
\* at index i+1 if i+1 < N, and at the last index the first track if
\* loop = all and none if loop = none; getNextTrackIndex returns i+1 if
\* i+1 < N and none otherwise, getPreviousTrackIndex i-1 if i-1 >= 0 and
\* none otherwise.
C18_SequentialAdvance ==
  LET i == policy.cur - 1
      N == policy.n
  IN policy.cur # NoTrack =>
       /\ (policy.op = "getNextTrack" /\ ~policy.shuffle
            /\ policy.loop # "single") =>
            policy.out = IF i + 1 < N THEN SongsOf(N)[i + 2]
                         ELSE IF policy.loop = "all" THEN SongsOf(N)[1]
                         ELSE NoTrack
       /\ policy.op = "getNextTrackIndex" =>
            policy.out = IF i + 1 < N THEN i + 1 ELSE NullIndex
       /\ policy.op = "getPreviousTrackIndex" =>
            policy.out = IF i - 1 >= 0 THEN i - 1 ELSE NullIndex

\* getNextTrack was called at the last index of a catalog of several tracks
\* with loop = all
C18_Witness ==
  /\ policy.op = "getNextTrack"
  /\ ~policy.shuffle
  /\ policy.loop = "all"
  /\ policy.n > 1
  /\ policy.cur = policy.n
  /\ policy.out = 1

\* C19: for a catalog of more than one track every result of getRandomTrack
\* is a track of the catalog whose id is not the current track's; for a
\* catalog of one track the result is that track.
C19_RandomAvoidsCurrent ==
  policy.op = "getRandomTrack" =>
    /\ (policy.n > 1 /\ policy.out # NoTrack) =>
         /\ policy.out \in 1..policy.n
         /\ policy.cur # NoTrack => TrackId(policy.out) # TrackId(policy.cur)
    /\ policy.n = 1 => policy.out = SongsOf(policy.n)[1]

\* the first draw was the current track and the loop drew again
C19_Witness ==
  /\ policy.op = "getRandomTrack"
  /\ policy.n > 1
  /\ policy.cur # NoTrack
  /\ policy.rnd = policy.cur
  /\ policy.out = policy.alt
  /\ policy.out # NoTrack

\* C20: while the slider is not dragged, position <= duration.
C20_PositionWithinDuration ==
  (mounted /\ drag = NoDrag) => audioState.position <= audioState.duration

\* ---- the multi-stem session
\* the Howl of every stem entry has the mute setting the mixing rule gives
MixingRuleApplied(m) ==
  \A i \in 1..Len(m.state.tracks) :
    LET trackState == m.state.tracks[i]
    IN trackState.sound # NoSound /\ Live(m.howls[trackState.sound])
       => m.howls[trackState.sound].mute
            = getEffectiveMuteState(trackState, m.state.tracks)

\* C21: at all times from the creation of the stem Howls on, before any
\* toggle included, the mute setting of every stem's Howl equals the
\* effective mute of its stem: with any stem soloed (not solo) or muted,
\* with none soloed muted.
C21_MixingRuleAlways == multi.mounted => MixingRuleApplied(multi)

\* the flags of the stems, and the effective mute the mixing rule gives them
StemFlags(m) ==
  [i \in 1..Len(m.state.tracks) |->
     <<m.state.tracks[i].muted, m.state.tracks[i].solo>>]

EffectiveMutes(m) ==
  [i \in 1..Len(m.state.tracks) |->
     getEffectiveMuteState(m.state.tracks[i], m.state.tracks)]

FlipMuted(flags, id) ==
  [i \in DOMAIN flags |->
     IF i = id THEN <<~flags[i][1], flags[i][2]>> ELSE flags[i]]

FlipSolo(flags, id) ==
  [i \in DOMAIN flags |->
     IF i = id THEN <<flags[i][1], ~flags[i][2]>> ELSE flags[i]]

\* C22: toggleMute(s) and toggleSolo(s) flip exactly the named flag of stem
\* s, leave every other flag of every stem as it was, and leave the Howl of
\* every stem, not only of s, with the mute setting of the mixing rule; the
\* same toggle applied once more restores the flags and the effective mute
\* of every stem.
C22_TogglesFlipAndRemix ==
  [][\A id \in 1..NumStems :
       /\ ToggleMute(id) =>
            /\ StemFlags(multi') = FlipMuted(StemFlags(multi), id)
            /\ MixingRuleApplied(multi')
            /\ StemFlags(ToggleMuteUpdater(multi', id)) = StemFlags(multi)
            /\ EffectiveMutes(ToggleMuteUpdater(multi', id))
                 = EffectiveMutes(multi)
       /\ ToggleSolo(id) =>
            /\ StemFlags(multi') = FlipSolo(StemFlags(multi), id)
            /\ MixingRuleApplied(multi')
            /\ StemFlags(ToggleSoloUpdater(multi', id)) = StemFlags(multi)
            /\ EffectiveMutes(ToggleSoloUpdater(multi', id))
                 = EffectiveMutes(multi)]_vars

\* stems A plain and B solo after a toggle: the Howl of A is muted, the Howl
\* of B is not (only a toggle sets the mute of a Howl)
C22_Witness ==
  /\ multi.mounted
  /\ StemFlags(multi) = <<(<<FALSE, FALSE>>), (<<FALSE, TRUE>>)>>
  /\ OwnedHowls(multi.state.tracks) = {1, 2}
  /\ multi.howls[multi.state.tracks[1].sound].mute
  /\ ~multi.howls[multi.state.tracks[2].sound].mute

\* the Howls that the stem entries hold and that are not unloaded
StemResources(m) ==
  {h \in OwnedHowls(m.state.tracks) : Live(m.howls[h])}

\* C23: play(), pause() and seek(offset) act on every stem that has a Howl:
\* pause() pauses all of them, seek(offset) seeks all of them to the offset
\* and sets the session position to it, play() calls play on exactly those
\* that are not playing already, so that no Howl is ever started twice.
C23_TransportOnEveryStem ==
  [][/\ Pause =>
          /\ ~multi'.state.isPlaying
          /\ \A h \in StemResources(multi') :
               multi'.howls[h].voices = 0 /\ ~multi'.howls[h].wantPlay
     /\ \A position \in SeekOffsets :
          Seek(position) =>
            /\ multi'.state.position = position
            /\ \A h \in StemResources(multi') :
                 multi'.howls[h].pos = position
     /\ Play =>
          /\ multi'.state.isPlaying
          /\ \A h \in StemResources(multi') :
               IF StemHowlPlaying(multi.howls[h])
               THEN multi'.howls[h] = multi.howls[h]
               ELSE multi'.howls[h] = StemHowlPlay(multi.howls[h])
     /\ \A h \in 1..Len(multi'.howls) : multi'.howls[h].voices <= 1]_vars

\* two stems play, both sought to the same offset
C23_Witness ==
  /\ multi.state.isPlaying
  /\ multi.state.position = 1
  /\ StemResources(multi) = {1, 2}
  /\ \A h \in StemResources(multi) :
       multi.howls[h].voices = 1 /\ multi.howls[h].pos = 1

\* C24: when the stem list changes or the view unmounts, every Howl created
\* for the previous stem list is unloaded: a Howl that is not unloaded
\* belongs to the list the mounted view was given last.
C24_PreviousListUnloaded ==
  \A h \in 1..Len(multi.howls) :
    Live(multi.howls[h])
      => multi.mounted /\ multi.howls[h].list = multi.lists

\* the list has changed: Howls of the first list are unloaded, Howls of the
\* second exist
C24_Witness ==
  /\ multi.mounted
  /\ multi.lists = 2
  /\ \E h \in 1..Len(multi.howls) :
       multi.howls[h].list = 1 /\ ~Live(multi.howls[h])
  /\ \E h \in 1..Len(multi.howls) :
       multi.howls[h].list = 2 /\ Live(multi.howls[h])

\* C25: after the initialization with a stem list that is not empty, the
\* session's loading becomes false at last while the view stays, whatever
\* the stems do (load, fail, never answer, have no audio file).
C25_LoadingEnds ==
  (multi.mounted /\ multi.cleanup # 0)
    ~> (~multi.mounted \/ ~multi.state.loading)

\* C28: the load error of one stem sets the entry of that stem alone to
\* loading = false with an error and leaves the entry of every other stem
\* as it was; a play() after it still starts every other stem that has a
\* Howl.
C28_StemErrorIsLocal ==
  [][/\ \A id \in 1..NumStems :
          (multi.queue = <<MultiUpd("loaderror", id, 0, <<>>)>> /\ MultiRender)
            => multi'.state.tracks =
                 [multi.state.tracks EXCEPT
                    ![id].loading = FALSE,
                    ![id].error = "Failed to load audio"]
     /\ (Play /\ \E h \in StemResources(multi) :
                   multi.howls[h].status = "error")
          => \A h \in StemResources(multi') :
               /\ multi.howls[h].status = "loaded"
                    => StemHowlPlaying(multi'.howls[h])
               /\ multi.howls[h].status = "loading"
                    => multi'.howls[h].wantPlay]_vars

\* one stem has failed to load, the other one plays
C28_Witness ==
  /\ multi.state.isPlaying
  /\ \E i \in 1..Len(multi.state.tracks) :
       \E j \in 1..Len(multi.state.tracks) :
         /\ multi.state.tracks[i].error = "Failed to load audio"
         /\ ~multi.state.tracks[i].loading
         /\ multi.state.tracks[j].error = "null"
         /\ multi.state.tracks[j].sound # NoSound
         /\ StemHowlPlaying(multi.howls[multi.state.tracks[j].sound])

\* ---- the single-track session again
\* C26: a load-completion callback of a sound whose track a later selection
\* has superseded has no effect: once the updates are rendered, duration is
\* the duration of the sound the session owns (0 until that one is loaded).
C26_StaleLoadIgnored ==
  (mounted /\ Settled(World) /\ Owned(World) # NoSound
     /\ Live(sounds[Owned(World)]))
    => audioState.duration = HowlDuration(sounds[Owned(World)])

\* C27: when the sound of the selected track reports a load error the
\* session does not stay on that track: once everything the error set off
\* is done, the session is on that track with the failed sound only if the
\* navigation policy gives no next track.
C27_LoadErrorAdvances ==
  (mounted /\ Settled(World) /\ Owned(World) # NoSound
     /\ sounds[Owned(World)].failed)
    => \A draw \in HandlerDraws(World) :
         getNextTrack(audioState.selectedTrack, Catalog, audioState.shuffle,
                      audioState.loop, draw[1], draw[2]) = NoTrack

\* C29: getPreviousTrack mirrors getNextTrack: with shuffle off and loop not
\* single it returns the track at index i-1 if i >= 1, and at index 0 the
\* last track of the catalog if loop = all and none only if loop = none.
C29_PreviousMirrorsNext ==
  LET i == policy.cur - 1
      N == policy.n
  IN (policy.op = "getPreviousTrack" /\ policy.cur # NoTrack
        /\ ~policy.shuffle /\ policy.loop # "single")
       => policy.out = IF i >= 1 THEN SongsOf(N)[i]
                       ELSE IF policy.loop = "all" THEN SongsOf(N)[N]
                       ELSE NoTrack

\* C30: the selection of the track that is selected already is no no-op:
\* position becomes 0, isPlaying true, and playback starts again from the
\* beginning on a new sound, the only one that is not disposed.
C30_SameTrackRestarts ==
  [][\A t \in Tracks :
       (Interactive /\ Settled(World) /\ audioState.selectedTrack = t
          /\ ClickTrack(t))
         => /\ audioState'.selectedTrack = t
            /\ audioState'.position = 0
            /\ audioState'.isPlaying
            /\ audioState'.sound # NoSound
            /\ LiveSounds(sounds') = {audioState'.sound}
            /\ ~sounds'[audioState'.sound].loaded
            /\ sounds'[audioState'.sound].pos = 0
            /\ sounds'[audioState'.sound].wantPlay]_vars

\* the sound that plays was created by a selection of the track that was
\* selected when the selection was made
C30_Witness ==
  /\ rev = "path"
  /\ audioState.sound # NoSound
  /\ Live(sounds[audioState.sound])
  /\ ~sounds[audioState.sound].initial
  /\ sounds[audioState.sound].hsel = sounds[audioState.sound].track
  /\ audioState.selectedTrack = sounds[audioState.sound].track
  /\ audioState.isPlaying
  /\ audioState.position = 0

\* C31: togglePlay changes isPlaying to its negation and nothing else of
\* the state: its update makes no call on the sound, and selectedTrack, the
\* owned sound, position, duration, loop and shuffle stay as they are; the
\* sound follows by the reconciliation effect.
C31_TogglePlayFlipsOnly ==
  [][(Interactive /\ Settled(World) /\ TogglePlay)
       => LET toggled == [World EXCEPT !.audioState.isPlaying = ~@]
          IN /\ audioState' = toggled.audioState
             /\ Commit(setAudioState(World, Plain("togglePlay")), 1, 2)
                  = toggled
             /\ sounds' = ReconcileEffect(toggled).sounds]_vars

\* a sound paused in the middle of its track
C31_Witness ==
  /\ mounted
  /\ audioState.sound # NoSound
  /\ ~audioState.isPlaying
  /\ sounds[audioState.sound].loaded
  /\ ~HowlPlaying(sounds[audioState.sound])
  /\ sounds[audioState.sound].pos > 0
  /\ sounds[audioState.sound].pos < HowlDuration(sounds[audioState.sound])

\* C32: a move of the slider sets position and nothing else, the sound is
\* not seeked; the release of the slider seeks the owned sound once, to the
\* value of the slider, and changes nothing if no sound is owned.
C32_SeekOnReleaseOnly ==
  [][/\ (Settled(World) /\ drag' # NoDrag /\ Drag(drag'))
          => /\ audioState' = [audioState EXCEPT !.position = drag']
             /\ sounds' = sounds
     /\ (drag' = NoDrag /\ CommitSeek)
          => /\ audioState' = audioState
             /\ queue' = queue
             /\ IF audioState.sound = NoSound THEN sounds' = sounds
                ELSE sounds' = [sounds EXCEPT
                                  ![audioState.sound] = HowlSeekTo(@, drag)]]_vars

\* the slider is held away from where the loaded sound is
C32_Witness ==
  /\ drag # NoDrag
  /\ audioState.position = drag
  /\ audioState.sound # NoSound
  /\ sounds[audioState.sound].loaded
  /\ HowlSeek(sounds[audioState.sound]) # drag

\* C33: the loop button maps none to all, all to single and single to none;
\* three presses in a row give the loop mode it started from, and a press
\* changes no other field of the session and makes no call on the sound.
C33_LoopCycles ==
  [][(Interactive /\ Settled(World) /\ ToggleLoop)
       => LET cycle == [none |-> "all", all |-> "single", single |-> "none"]
          IN /\ audioState' = [audioState EXCEPT !.loop = cycle[@]]
             /\ toggleLoopValue(toggleLoopValue(audioState'.loop))
                  = audioState.loop
             /\ \A l \in DOMAIN cycle :
                  toggleLoopValue(toggleLoopValue(toggleLoopValue(l))) = l
             /\ sounds' = sounds
             /\ url' = url]_vars

C33_Witness ==
  /\ mounted
  /\ audioState.loop = "single"
  /\ audioState.isPlaying
  /\ audioState.shuffle
  /\ audioState.position > 0

\* C34: once a track is selected the selection is never empty again, and
\* whenever the page takes input the selected track is a song of the catalog.
C34_SelectionStaysInCatalog ==
  /\ [](audioState.selectedTrack # NoTrack
          => \E i \in DOMAIN Catalog : Catalog[i] = audioState.selectedTrack)
  /\ [](Interactive => audioState.selectedTrack # NoTrack)
  /\ [][audioState.selectedTrack # NoTrack
          => audioState'.selectedTrack # NoTrack]_vars

C34_Witness ==
  /\ Interactive
  /\ Settled(World)
  /\ audioState.selectedTrack = Catalog[Len(Catalog)]
  /\ ~audioState.isPlaying
  /\ audioState.loop = "none"
  /\ ~audioState.shuffle
  /\ audioState.sound # NoSound
  /\ sounds[audioState.sound].pos = 0
  /\ audioState.position > 0

\* C35: once the entries of the stems are in the state, the session is
\* loading exactly when some entry is loading.
C35_LoadingIffSomeStemLoading ==
  Len(multi.state.tracks) > 0
    => (multi.state.loading <=> AnyLoading(multi.state.tracks))

\* C36: the duration of the session is the largest duration among the stems
\* whose load has completed (0 when there is none), whichever stem finished
\* first, and it does not decrease while the stem list stays the same.
C36_DurationIsMaxOfLoaded ==
  /\ [](LET done == {i \in 1..Len(multi.state.tracks) :
                      /\ multi.state.tracks[i].sound # NoSound
                      /\ ~multi.state.tracks[i].loading
                      /\ multi.state.tracks[i].error = "null"}
        IN /\ \A i \in done : multi.state.duration >= StemDuration(i)
           /\ IF done = {} THEN multi.state.duration = 0
              ELSE \E i \in done : multi.state.duration = StemDuration(i))
  /\ [][multi'.lists = multi.lists
          => multi'.state.duration >= multi.state.duration]_vars

C36_Witness ==
  /\ multi.lists = MaxLists
  /\ Len(multi.state.tracks) = NumStems
  /\ \A i \in 1..NumStems :
       /\ multi.state.tracks[i].sound # NoSound
       /\ ~multi.state.tracks[i].loading
       /\ multi.state.tracks[i].error = "null"
  /\ multi.state.duration = StemDuration(NumStems)

\* C37: the position-polling timer of the multi-stem session runs only
\* while the session is playing, also after the stem list was replaced, and
\* there is never more than one such timer.
C37_TimerOnlyWhilePlaying ==
  /\ multi.positionInterval <= 1
  /\ multi.positionInterval # 0 => multi.state.isPlaying

\* C38: with a loop mode other than single, getNextTrack and
\* getPreviousTrack return none when the catalog is empty and when the
\* current track is not a track of the catalog, whatever shuffle is.
C38_NoneOutsideCatalog ==
  (/\ policy.op \in {"getNextTrack", "getPreviousTrack"}
   /\ policy.loop # "single"
   /\ \/ policy.n = 0
      \/ \A k \in 1..policy.n :
           TrackId(SongsOf(policy.n)[k]) # TrackId(policy.cur))
    => policy.out = NoTrack

\* C39: an end event of a sound that a later selection has superseded
\* changes neither the selected track, nor isPlaying, nor the owned sound.
\* The case is a render whose queue holds the selection and, behind it, the
\* end update of the sound that the selection disposes.
C39_StaleEndIgnored ==
  (/\ mounted
   /\ Len(queue) = 2
   /\ queue[1].k = "select"
   /\ queue[2].k = "end"
   /\ queue[2].track = audioState.selectedTrack
   /\ queue[2].track # queue[1].track)
    => \A p \in RenderDraws(World) :
         LET selected == ApplyUpdater([World EXCEPT !.queue = <<>>],
                                      queue[1], p[1], p[2])
             ended == Drain(ApplyUpdater(selected, queue[2], p[1], p[2]),
                            p[1], p[2])
         IN /\ ended.audioState.selectedTrack
                 = selected.audioState.selectedTrack
            /\ ended.audioState.isPlaying = selected.audioState.isPlaying
            /\ ended.audioState.sound = selected.audioState.sound
            /\ ended.sounds = selected.sounds

\* C40: initialization does not start playback.  The session starts with
\* isPlaying false and no sound, and as long as every sound is the one the
\* initialization created, isPlaying is false, no play() has reached a
\* sound and no selection or end of a sound is pending, a step leaves that
\* condition only if it is a press of the play button or selects a track.
NotStarted ==
  /\ ~audioState.isPlaying
  /\ \A n \in 1..Len(queue) : queue[n].k \notin {"select", "end"}
  /\ \A i \in 1..Len(sounds) :
       sounds[i].initial /\ ~sounds[i].playing /\ ~sounds[i].wantPlay

C40_NoAutoplay ==
  /\ [](~deps.ran => NotStarted)
  /\ [][(NotStarted /\ ~NotStarted')
          => \/ TogglePlay
             \/ \E n \in 1..Len(queue') : queue'[n].k = "select"
             \/ \E i \in 1..Len(sounds') : ~sounds'[i].initial]_vars

C40_Witness ==
  /\ Interactive
  /\ Settled(World)
  /\ NotStarted
  /\ audioState.sound # NoSound
  /\ sounds[audioState.sound].loaded
  /\ audioState.duration > 0
  /\ audioState.shuffle
  /\ audioState.loop = "all"

====
